---- MODULE Spec2Model ----
(***************************************************************************)
(* Trade execution and position accounting of the virtual trading          *)
(* platform: TradingEngine (services/trading_engine.py), the CRUD helpers  *)
(* it calls (crud/user.py), the place_trade endpoint and                   *)
(* StrategyService._process_signal.                                        *)
(*                                                                         *)
(* The database is the committed state (cash, total_value, positions, the  *)
(* Trade row of each request).  Every request owns an AsyncSession         *)
(* (core/database.py, expire_on_commit=False): objects it has loaded stay  *)
(* in its identity map with the attribute values read at load time, and    *)
(* its changes reach the database when it commits.  A step of the model is *)
(* the code between two awaits on the database; quote fetches return any   *)
(* outcome of the market feed.  Python floats are modelled as exact        *)
(* rationals <<numerator, denominator>>.                                   *)
(***************************************************************************)
EXTENDS Integers, Sequences, FiniteSets, TLC

\* ------------------------------------------------------------------ bounds
NumReq == 2            \* requests (sessions) that may be in progress together
MaxOps == 1            \* requests issued one after the other
MaxConcOps == 2        \* requests issued when they may overlap
MaxSummaries == 2      \* summaries requested one after the other
InitialCash == 4       \* starting cash of the portfolio (scaled)
MaxQty == 2            \* largest order quantity
MaxShort == 1           \* order quantities go down to -MaxShort (the schema accepts any int)
MaxPrice == 2          \* largest quoted / requested price
CapitalAllocation == 20 \* the strategy's capital_allocation (scaled)
SignalPercent == 50    \* the percentage a signal may carry

MaxPositionSize == <<1, 10>>  \* Strategy.max_position_size default, 0.1
DefaultPrice == 100    \* _calculate_quantity: signal.price or 100
DemoPrice == 100       \* get_quote: the price it returns when the fetch raised

Req == 1..NumReq
Portfolios == {1, 2}     \* the portfolios of the current user
FirstPortfolio == {1}    \* the one the requests are for, where one is enough
NoPortfolio == 0       \* a portfolio id the current user does not own
Symbols == {"A", "B"}
Quantities == -MaxShort..MaxQty
Prices == 1..MaxPrice
NoQuote == -1          \* get_quote returned None
FeedError == -2        \* the request to the upstream feed raised
\* what the upstream feed (or the quote cache) answers to a fetch: a price,
\* a response without a quote, or an error
FeedAnswers == Prices \cup {NoQuote, FeedError}
\* get_quote: the price of the answer, None for a response without a quote,
\* the demo price when the fetch raised
GetQuote(answer) == IF answer = FeedError THEN DemoPrice ELSE answer
QuoteOutcomes == {GetQuote(answer) : answer \in FeedAnswers}
OrderTypes == {"BUY", "SELL"}

\* ------------------------------------------------------- exact arithmetic
Abs(x) == IF x < 0 THEN -x ELSE x

RECURSIVE GCD(_, _)
GCD(a, b) == IF b = 0 THEN a ELSE GCD(b, a % b)

\* the rational n/d (d # 0) in lowest terms with a positive denominator
Rat(n, d) ==
    LET g == GCD(Abs(n), Abs(d))
        s == IF d < 0 THEN -1 ELSE 1
    IN  <<(s * n) \div g, (s * d) \div g>>

RatOfInt(i) == <<i, 1>>

\* a + b, a - b, a * i, for rationals a, b and an integer i
RatAdd(a, b) == Rat(a[1] * b[2] + b[1] * a[2], a[2] * b[2])
RatSub(a, b) == Rat(a[1] * b[2] - b[1] * a[2], a[2] * b[2])
RatMulInt(a, i) == Rat(a[1] * i, a[2])
\* a / i for an integer i # 0
RatDivInt(a, i) == Rat(a[1], a[2] * i)

\* --------------------------------------------- the engine's computations
\* _execute_buy_order: total_cost = trade.quantity * current_price
TotalCostWithFee(quantity, current_price) == quantity * current_price + 1
TotalCost(quantity, current_price) == quantity * current_price

\* _execute_buy_order: portfolio.cash_balance < total_cost
InsufficientFundsNoCheck(cash_balance, total_cost) == FALSE
InsufficientFunds(cash_balance, total_cost) == cash_balance < total_cost

\* _execute_buy_order: ((position.average_cost * position.quantity) + total_cost) / new_quantity
NewAverageCostUnweighted(average_cost, quantity, total_cost, new_quantity) ==
    RatDivInt(RatAdd(average_cost, RatOfInt(total_cost)), new_quantity)
NewAverageCost(average_cost, quantity, total_cost, new_quantity) ==
    RatDivInt(RatAdd(RatMulInt(average_cost, quantity), RatOfInt(total_cost)), new_quantity)

\* _execute_sell_order: position.quantity < trade.quantity
InsufficientSharesOffByOne(position_quantity, quantity) == position_quantity <= quantity
InsufficientShares(position_quantity, quantity) == position_quantity < quantity

\* _execute_sell_order: proceeds = trade.quantity * current_price
ProceedsOfOneShare(quantity, current_price) == current_price
Proceeds(quantity, current_price) == quantity * current_price

\* _execute_sell_order: the average cost handed to update_position
SellAverageCostRepriced(average_cost, current_price) == RatOfInt(current_price)
SellAverageCost(average_cost, current_price) == average_cost

\* update_position / create_position: the derived columns
MarketValue(quantity, current_price) == quantity * current_price
UnrealizedPnl(quantity, average_cost, current_price) ==
    RatMulInt(RatSub(RatOfInt(current_price), average_cost), quantity)

\* a Position row as update_position / create_position write it
PositionRow(id, portfolio_id, symbol, quantity, average_cost, current_price) ==
    [id |-> id, portfolio_id |-> portfolio_id, symbol |-> symbol,
     quantity |-> quantity, average_cost |-> average_cost,
     current_price |-> current_price,
     market_value |-> MarketValue(quantity, current_price),
     unrealized_pnl |-> UnrealizedPnl(quantity, average_cost, current_price)]

\* create_trade / _create_trade_from_signal: a PENDING Trade row
TradeRow(portfolio_id, symbol, order_type, quantity, price, from_strategy) ==
    [portfolio_id |-> portfolio_id, symbol |-> symbol, order_type |-> order_type,
     quantity |-> quantity, price |-> price, total_amount |-> quantity * price,
     status |-> "PENDING", executed_at |-> FALSE, from_strategy |-> from_strategy]

NoTrade == [status |-> "NONE"]

\* ------------------------------------------------------------------ state
VARIABLES
    budget,       \* requests that may still be issued
    cash,         \* portfolios.cash_balance, committed, per portfolio
    total_value,  \* portfolios.total_value, committed, per portfolio
    positions,    \* the committed rows of table positions
    nextPosId,    \* next value of the positions.id sequence
    rowLock,      \* per portfolio: the request holding an uncommitted UPDATE of its row, or 0
    pc,           \* per request: where its handler stands
    kind,         \* per request: "place" (place_trade) or "signal" (_process_signal)
    trade,        \* per request: the committed Trade row it created
    sess,         \* per request: its AsyncSession (identity map and pending changes)
    loc,          \* per request: the local variables of execute_trade
    strategy,     \* the Strategy row
    strategyTrades, \* number of EXECUTED Trade rows of the strategy
    execution,    \* per request: the StrategyExecution object of _process_signal
    pre,          \* per request: cash and positions committed when execute_trade was called
    hist          \* what has happened: the positions deleted, the summaries, the
                  \* execution records created, the webhook signals turned away

vars == <<budget, cash, total_value, positions, nextPosId, rowLock,
          pc, kind, trade, sess, loc, strategy, strategyTrades, execution, pre,
          hist>>

\* a session with nothing loaded
EmptySession ==
    [hasPf |-> FALSE, cash |-> 0, cashLoaded |-> 0, total |-> 0, totalLoaded |-> 0,
     pos |-> {}, deleted |-> {}, broken |-> FALSE]

NoLocals ==
    [feed |-> NoQuote, current_price |-> 0, target |-> 0, new_quantity |-> 0,
     new_average_cost |-> <<0, 1>>, success |-> FALSE, reval |-> {},
     cause |-> "", detail |-> "", marks |-> {}, entry |-> "PENDING",
     failed |-> {}]

NoExecution == [signal_type |-> "NONE"]

NoPre == [cash |-> 0, positions |-> {}, applied |-> FALSE]

\* no summary has been computed
NoSummary == [done |-> FALSE]

\* the values of StrategyStatus
StrategyStatuses == {"DRAFT", "ACTIVE", "PAUSED", "STOPPED"}

\* The committed state the requests start from: the portfolio as created
\* (Portfolio.cash_balance and total_value default, no positions), as it is
\* after one BUY of quantity shares of "A" filled at price, or as it is after
\* a BUY of one share of "A" at price and the SELL of that share at sold.
\* trades counts the fills behind it.
Holdings ==
    {[cash |-> InitialCash, total_value |-> InitialCash, positions |-> {},
      nextPosId |-> 1, removed |-> {}, trades |-> 0]}
    \cup
    {[cash |-> InitialCash - quantity * price, total_value |-> InitialCash,
      positions |-> {PositionRow(1, 1, "A", quantity, RatOfInt(price), price)},
      nextPosId |-> 2, removed |-> {}, trades |-> 1]
       : <<quantity, price>> \in
           {qp \in (1..MaxQty) \X Prices : qp[1] * qp[2] <= InitialCash}}
    \cup
    {[cash |-> InitialCash - price + sold, total_value |-> InitialCash - price + sold,
      positions |-> {}, nextPosId |-> 2,
      removed |-> {[symbol |-> "A", average_cost |-> RatOfInt(price)]},
      trades |-> 2]
       : <<price, sold>> \in {ps \in Prices \X Prices : ps[1] <= InitialCash}}

\* the Strategy row: its status, and its counters after own fills of its orders
StrategyRow(status, own) ==
    [status |-> status, user_id |-> 1, portfolio_id |-> 1,
     capital_allocation |-> CapitalAllocation,
     max_position_size |-> MaxPositionSize,
     total_trades |-> own, last_executed_at |-> own > 0]

InitOf(holding, ops, row, own) ==
    /\ budget = ops
    /\ cash = [p \in Portfolios |-> holding.cash]
    /\ total_value = [p \in Portfolios |-> holding.total_value]
    /\ positions = holding.positions
    /\ nextPosId = holding.nextPosId
    /\ rowLock = [p \in Portfolios |-> 0]
    /\ pc = [r \in Req |-> "idle"]
    /\ kind = [r \in Req |-> "none"]
    /\ trade = [r \in Req |-> NoTrade]
    /\ sess = [r \in Req |-> EmptySession]
    /\ loc = [r \in Req |-> NoLocals]
    /\ pre = [r \in Req |-> NoPre]
    /\ strategy = row
    /\ strategyTrades = own
    /\ execution = [r \in Req |-> NoExecution]
    /\ hist = [removed |-> holding.removed, summary |-> NoSummary,
               previous |-> NoSummary, executions |-> own,
               rejected |-> 0]

InitWith(holding, ops, status, own) ==
    InitOf(holding, ops, StrategyRow(status, own), own)

\* requests issued one after the other; the fills behind the holding were
\* all the strategy's or all placed by hand
Init ==
    \E holding \in Holdings, status \in StrategyStatuses :
        \E own \in {0, holding.trades} :
            InitWith(holding, MaxOps, status, own)

\* the portfolio as it is after a BUY of one share of "A" at priceA and a
\* BUY of one share of "B" at priceB
HoldingsOfTwo ==
    {[cash |-> InitialCash - priceA - priceB, total_value |-> InitialCash,
      positions |-> {PositionRow(1, 1, "A", 1, RatOfInt(priceA), priceA),
                     PositionRow(2, 1, "B", 1, RatOfInt(priceB), priceB)},
      nextPosId |-> 3, removed |-> {}, trades |-> 2]
       : <<priceA, priceB>> \in
           {ab \in Prices \X Prices : ab[1] + ab[2] <= InitialCash}}

\* summaries of a portfolio, requested one after the other
InitReval ==
    \E holding \in Holdings \cup HoldingsOfTwo :
        InitWith(holding, MaxSummaries, "ACTIVE", 0)

\* requests that may overlap
InitConc ==
    \E holding \in {h \in Holdings : h.cash \in {InitialCash, InitialCash - MaxQty}
                                      /\ h.removed = {}} :
        InitWith(holding, MaxConcOps, "ACTIVE", 0)

\* a client may issue a request on slot r
CanStart(r) ==
    /\ pc[r] = "idle"
    /\ budget > 0

\* the committed rows of one portfolio (get_portfolio_positions' SELECT)
RowsOf(portfolio_id) == {row \in positions : row.portfolio_id = portfolio_id}

\* the rows get_user_portfolios loads: the positions of every portfolio of
\* the current user (selectinload)
UserRows == {row \in positions : row.portfolio_id \in Portfolios}

\* get_position_by_symbol's SELECT
RowsOfSymbolAnywhere(portfolio_id, symbol) ==
    {row \in positions : row.symbol = symbol}
RowsOfSymbol(portfolio_id, symbol) ==
    {row \in positions : row.portfolio_id = portfolio_id /\ row.symbol = symbol}

\* the object a session hands out for a selected row: the one already in its
\* identity map, attributes as loaded, if there is one; else the row as read
ObjectFor(s, row) ==
    IF \E o \in s.pos : o.id = row.id
    THEN CHOOSE o \in s.pos : o.id = row.id
    ELSE row

\* the identity map after the objects for rows have been handed out
Loaded(s, rows) ==
    s.pos \cup {row \in rows : ~ \E o \in s.pos : o.id = row.id}

\* the identity map after object id was given new attribute values
Replaced(pos, obj) == {o \in pos : o.id # obj.id} \cup {obj}

\* a flush may send an UPDATE of the portfolio row only if no other request
\* holds an uncommitted UPDATE of that row
CanWritePortfolioOnceHeld(r, portfolio_id) == rowLock[portfolio_id] = r
CanWritePortfolio(r, portfolio_id) == rowLock[portfolio_id] \in {0, r}

\* the session has an unflushed or uncommitted change of cash_balance
CashDirty(s) == s.hasPf /\ s.cash # s.cashLoaded

\* ------------------------------------------------------------ place_trade
\* place_trade up to the call of execute_trade: get_user_portfolios loads the
\* user's portfolios with their positions, create_trade commits the order
PlaceTrade(r, portfolio_id, symbol, order_type, quantity, price) ==
    /\ CanStart(r)
    /\ portfolio_id \in Portfolios
    /\ budget' = budget - 1
    /\ kind' = [kind EXCEPT ![r] = "place"]
    /\ sess' = [sess EXCEPT ![r] =
                  [hasPf |-> TRUE,
                   cash |-> cash[portfolio_id], cashLoaded |-> cash[portfolio_id],
                   total |-> total_value[portfolio_id],
                   totalLoaded |-> total_value[portfolio_id],
                   pos |-> UserRows, deleted |-> {}, broken |-> FALSE]]
    /\ trade' = [trade EXCEPT ![r] =
                   TradeRow(portfolio_id, symbol, order_type, quantity, price, FALSE)]
    /\ loc' = [loc EXCEPT ![r] = NoLocals]
    /\ pc' = [pc EXCEPT ![r] = "exec"]
    /\ UNCHANGED <<hist, strategy, strategyTrades, execution, cash, total_value, positions, nextPosId, rowLock, pre>>

\* place_trade: the portfolio is not one of the current user's: 404
PlaceTradeNotFound(r, portfolio_id) ==
    /\ CanStart(r)
    /\ portfolio_id \notin Portfolios
    /\ budget' = budget - 1
    /\ UNCHANGED <<hist, strategy, strategyTrades, execution, cash, total_value, positions, nextPosId, rowLock,
                   pc, kind, trade, sess, loc, pre>>

\* ---------------------------------------------------------- execute_trade
\* the session after select(Portfolio): the object already in the identity
\* map (place_trade loaded it), else the row as committed now
WithPortfolio(s, portfolio_id) ==
    IF s.hasPf THEN s
    ELSE [s EXCEPT !.hasPf = TRUE,
                   !.cash = cash[portfolio_id], !.cashLoaded = cash[portfolio_id],
                   !.total = total_value[portfolio_id],
                   !.totalLoaded = total_value[portfolio_id]]

\* what is committed when execute_trade is called
Snapshot(portfolio_id) ==
    [cash |-> cash[portfolio_id], positions |-> RowsOf(portfolio_id), applied |-> FALSE]

\* execute_trade returns False (a rejection, or an exception caught at line
\* 52).  cause keeps why, which the returned value does not carry.
ReturnFalse(r, cause) ==
    /\ pc' = [pc EXCEPT ![r] = "ret"]
    /\ loc' = [loc EXCEPT ![r].success = FALSE, ![r].cause = cause]

\* execute_trade: get_quote returns None
ExecuteTradeNoQuote(r) ==
    /\ pc[r] = "exec"
    /\ pre' = [pre EXCEPT ![r] = Snapshot(trade[r].portfolio_id)]
    /\ pc' = [pc EXCEPT ![r] = "ret"]
    /\ loc' = [loc EXCEPT ![r].current_price = NoQuote, ![r].success = FALSE,
                          ![r].cause = "QuoteUnavailable"]
    /\ UNCHANGED <<hist, strategy, strategyTrades, execution, budget, cash, total_value, positions, nextPosId, rowLock,
                   kind, trade, sess>>

\* execute_trade with a quote, BUY: the portfolio is selected, then
\* _execute_buy_order checks and debits portfolio.cash_balance
ExecuteBuy(r, answer) ==
    LET t == trade[r]
        s == WithPortfolio(sess[r], t.portfolio_id)
        current_price == GetQuote(answer)
        total_cost == TotalCost(t.quantity, current_price)
    IN  /\ pc[r] = "exec"
        /\ answer # NoQuote
        /\ t.order_type = "BUY"
        /\ pre' = [pre EXCEPT ![r] = Snapshot(t.portfolio_id)]
        /\ IF InsufficientFunds(s.cash, total_cost)
           THEN /\ sess' = [sess EXCEPT ![r] = s]
                /\ pc' = [pc EXCEPT ![r] = "ret"]
                /\ loc' = [loc EXCEPT ![r].feed = answer,
                                      ![r].current_price = current_price,
                                      ![r].success = FALSE,
                                      ![r].cause = "InsufficientFunds"]
           ELSE /\ sess' = [sess EXCEPT ![r] = [s EXCEPT !.cash = s.cash - total_cost]]
                /\ pc' = [pc EXCEPT ![r] = "buy_lookup"]
                /\ loc' = [loc EXCEPT ![r].feed = answer,
                                      ![r].current_price = current_price]
        /\ UNCHANGED <<hist, strategy, strategyTrades, execution, budget, cash, total_value, positions, nextPosId,
                       rowLock, kind, trade>>

\* execute_trade with a quote, SELL: the portfolio is selected
ExecuteSell(r, answer) ==
    LET t == trade[r]
        current_price == GetQuote(answer)
    IN  /\ pc[r] = "exec"
        /\ answer # NoQuote
        /\ t.order_type = "SELL"
        /\ pre' = [pre EXCEPT ![r] = Snapshot(t.portfolio_id)]
        /\ sess' = [sess EXCEPT ![r] = WithPortfolio(sess[r], t.portfolio_id)]
        /\ pc' = [pc EXCEPT ![r] = "sell_lookup"]
        /\ loc' = [loc EXCEPT ![r].feed = answer,
                              ![r].current_price = current_price]
        /\ UNCHANGED <<hist, strategy, strategyTrades, execution, budget, cash, total_value, positions, nextPosId,
                       rowLock, kind, trade>>

\* _execute_buy_order: get_position_by_symbol (its SELECT autoflushes the
\* debited cash_balance), then the new quantity and average cost.
\* scalar_one_or_none raises on two rows, the division raises on quantity 0.
BuyLookup(r) ==
    LET t == trade[r]
        s == sess[r]
        rows == RowsOfSymbol(t.portfolio_id, t.symbol)
        position == ObjectFor(s, CHOOSE row \in rows : TRUE)
        new_quantity == position.quantity + t.quantity
        total_cost == TotalCost(t.quantity, loc[r].current_price)
    IN  /\ pc[r] = "buy_lookup"
        /\ CashDirty(s) => CanWritePortfolio(r, t.portfolio_id)
        /\ rowLock' = IF CashDirty(s)
                      THEN [rowLock EXCEPT ![t.portfolio_id] = r] ELSE rowLock
        /\ IF Cardinality(rows) > 1
           THEN /\ ReturnFalse(r, "MultipleResultsFound")
                /\ sess' = sess
           ELSE IF rows = {}
           THEN /\ pc' = [pc EXCEPT ![r] = "buy_write"]
                /\ loc' = [loc EXCEPT ![r].target = 0]
                /\ sess' = sess
           ELSE IF new_quantity = 0
           THEN /\ ReturnFalse(r, "ZeroDivisionError")
                /\ sess' = [sess EXCEPT ![r].pos = Loaded(s, rows)]
           ELSE /\ pc' = [pc EXCEPT ![r] = "buy_write"]
                /\ loc' = [loc EXCEPT
                      ![r].target = position.id,
                      ![r].new_quantity = new_quantity,
                      ![r].new_average_cost =
                          NewAverageCost(position.average_cost, position.quantity,
                                         total_cost, new_quantity)]
                /\ sess' = [sess EXCEPT ![r].pos = Loaded(s, rows)]
        /\ UNCHANGED <<hist, strategy, strategyTrades, execution, budget, cash, total_value, positions, nextPosId,
                       kind, trade, pre>>

\* update_position's UPDATE ... WHERE id = position_id on the committed rows
UpdatedRows(position_id, quantity, average_cost, current_price) ==
    {IF row.id = position_id
     THEN PositionRow(row.id, row.portfolio_id, row.symbol,
                      quantity, average_cost, current_price)
     ELSE row : row \in positions}

\* the session's objects after update_position (the UPDATE is synchronised
\* into the identity map)
UpdatedObjects(pos, position_id, quantity, average_cost, current_price) ==
    {IF o.id = position_id
     THEN PositionRow(o.id, o.portfolio_id, o.symbol,
                      quantity, average_cost, current_price)
     ELSE o : o \in pos}

\* db.commit(): the session's cash_balance, if changed, is written and
\* everything the session wrote becomes visible; the row lock is released
CommitCash(r, portfolio_id) ==
    /\ cash' = IF CashDirty(sess[r])
               THEN [cash EXCEPT ![portfolio_id] = sess[r].cash] ELSE cash
    /\ rowLock' = IF rowLock[portfolio_id] = r
                  THEN [rowLock EXCEPT ![portfolio_id] = 0] ELSE rowLock

\* _execute_buy_order: the average cost handed to create_position for a
\* symbol that has no position
NewPositionCostOfRemoved(symbol, current_price) ==
    IF \E x \in hist.removed : x.symbol = symbol
    THEN (CHOOSE x \in hist.removed : x.symbol = symbol).average_cost
    ELSE RatOfInt(current_price)
NewPositionCost(symbol, current_price) == RatOfInt(current_price)

\* _execute_buy_order: update_position or create_position, each ending in
\* db.commit()
BuyWrite(r) ==
    LET t == trade[r]
        s == sess[r]
        l == loc[r]
        created == PositionRow(nextPosId, t.portfolio_id, t.symbol, t.quantity,
                               NewPositionCost(t.symbol, l.current_price),
                               l.current_price)
    IN  /\ pc[r] = "buy_write"
        /\ CanWritePortfolio(r, t.portfolio_id)
        /\ CommitCash(r, t.portfolio_id)
        /\ IF l.target # 0
           THEN /\ positions' = UpdatedRows(l.target, l.new_quantity,
                                            l.new_average_cost, l.current_price)
                /\ nextPosId' = nextPosId
                /\ sess' = [sess EXCEPT
                      ![r].cashLoaded = s.cash,
                      ![r].pos = UpdatedObjects(s.pos, l.target, l.new_quantity,
                                                l.new_average_cost, l.current_price)]
           ELSE /\ positions' = positions \cup {created}
                /\ nextPosId' = nextPosId + 1
                /\ sess' = [sess EXCEPT ![r].cashLoaded = s.cash,
                                        ![r].pos = s.pos \cup {created}]
        /\ pre' = [pre EXCEPT ![r].applied = TRUE]
        /\ pc' = [pc EXCEPT ![r] = "status"]
        /\ UNCHANGED <<hist, strategy, strategyTrades, execution, budget, total_value, kind, trade, loc>>

\* _execute_sell_order: get_position_by_symbol, the shares check, the credit
\* of portfolio.cash_balance and, for a sale of the whole position,
\* db.delete(position)
SellLookup(r) ==
    LET t == trade[r]
        s == sess[r]
        l == loc[r]
        rows == RowsOfSymbol(t.portfolio_id, t.symbol)
        position == ObjectFor(s, CHOOSE row \in rows : TRUE)
        proceeds == Proceeds(t.quantity, l.current_price)
        new_quantity == position.quantity - t.quantity
        credited == [s EXCEPT !.cash = s.cash + proceeds, !.pos = Loaded(s, rows)]
    IN  /\ pc[r] = "sell_lookup"
        /\ IF Cardinality(rows) > 1
           THEN /\ ReturnFalse(r, "MultipleResultsFound")
                /\ sess' = sess
           ELSE IF rows = {}
           THEN /\ ReturnFalse(r, "InsufficientShares")
                /\ sess' = sess
           ELSE IF InsufficientShares(position.quantity, t.quantity)
           THEN /\ ReturnFalse(r, "InsufficientShares")
                /\ sess' = [sess EXCEPT ![r].pos = Loaded(s, rows)]
           ELSE IF new_quantity = 0
           THEN /\ sess' = [sess EXCEPT ![r] =
                              [credited EXCEPT !.deleted = {position.id}]]
                /\ loc' = [loc EXCEPT ![r].target = position.id,
                                      ![r].new_quantity = 0]
                /\ pc' = [pc EXCEPT ![r] = "status"]
           ELSE /\ sess' = [sess EXCEPT ![r] = credited]
                /\ loc' = [loc EXCEPT
                      ![r].target = position.id,
                      ![r].new_quantity = new_quantity,
                      ![r].new_average_cost =
                          SellAverageCost(position.average_cost, l.current_price)]
                /\ pc' = [pc EXCEPT ![r] = "sell_write"]
        /\ UNCHANGED <<hist, strategy, strategyTrades, execution, budget, cash, total_value, positions, nextPosId,
                       rowLock, kind, trade, pre>>

\* _execute_sell_order: update_position of the remaining quantity, ending in
\* db.commit()
SellWrite(r) ==
    LET t == trade[r]
        s == sess[r]
        l == loc[r]
    IN  /\ pc[r] = "sell_write"
        /\ CanWritePortfolio(r, t.portfolio_id)
        /\ CommitCash(r, t.portfolio_id)
        /\ positions' = UpdatedRows(l.target, l.new_quantity,
                                    l.new_average_cost, l.current_price)
        /\ sess' = [sess EXCEPT
              ![r].cashLoaded = s.cash,
              ![r].pos = UpdatedObjects(s.pos, l.target, l.new_quantity,
                                        l.new_average_cost, l.current_price)]
        /\ pre' = [pre EXCEPT ![r].applied = TRUE]
        /\ pc' = [pc EXCEPT ![r] = "status"]
        /\ UNCHANGED <<hist, strategy, strategyTrades, execution, budget, total_value, nextPosId, kind, trade, loc>>

\* execute_trade: update_trade_status(EXECUTED).  Its UPDATE flushes what the
\* session still holds (a credited cash_balance and a deleted position after
\* a sale of the whole position) and its commit persists all of it.
UpdateTradeStatus(r) ==
    LET t == trade[r]
        s == sess[r]
    IN  /\ pc[r] = "status"
        /\ CanWritePortfolio(r, t.portfolio_id)
        /\ CommitCash(r, t.portfolio_id)
        /\ positions' = {row \in positions : row.id \notin s.deleted}
        /\ sess' = [sess EXCEPT
              ![r].cashLoaded = s.cash,
              ![r].pos = {o \in s.pos : o.id \notin s.deleted},
              ![r].deleted = {}]
        /\ trade' = [trade EXCEPT ![r].status = "EXECUTED"]
        /\ loc' = [loc EXCEPT ![r].success = TRUE]
        /\ pre' = [pre EXCEPT ![r].applied = TRUE]
        /\ strategyTrades' = IF t.from_strategy THEN strategyTrades + 1
                              ELSE strategyTrades
        /\ pc' = [pc EXCEPT ![r] = "reval"]
        /\ hist' = [hist EXCEPT !.removed = @ \cup
                       {[symbol |-> row.symbol, average_cost |-> row.average_cost]
                          : row \in {x \in positions : x.id \in s.deleted}}]
        /\ UNCHANGED <<strategy, execution, budget, total_value, nextPosId, kind>>

\* execute_trade: trade.executed_at is committed; _update_portfolio_value
\* selects the portfolio's positions
RevalBegin(r) ==
    LET t == trade[r]
        rows == RowsOf(t.portfolio_id)
    IN  /\ pc[r] = "reval"
        /\ trade' = [trade EXCEPT ![r].executed_at = TRUE]
        /\ sess' = [sess EXCEPT ![r].pos = Loaded(sess[r], rows)]
        /\ loc' = [loc EXCEPT ![r].reval = {row.id : row \in rows}]
        /\ pc' = [pc EXCEPT ![r] = "reval_commit"]
        /\ UNCHANGED <<hist, strategy, strategyTrades, execution, budget, cash, total_value, positions, nextPosId,
                       rowLock, kind, pre>>

RECURSIVE SumMarketValue(_)
SumMarketValue(objs) ==
    IF objs = {} THEN 0
    ELSE LET o == CHOOSE x \in objs : TRUE
         IN  o.market_value + SumMarketValue(objs \ {o})

\* _update_portfolio_value: a position object after the loop body, given the
\* outcome of get_quote for it
Revalued(o, quote) ==
    IF quote = NoQuote THEN o
    ELSE [o EXCEPT !.current_price = quote,
                   !.market_value = o.quantity * quote,
                   !.unrealized_pnl =
                       RatMulInt(RatSub(RatOfInt(quote), o.average_cost), o.quantity)]

\* the flush of a revalued object writes the attributes that changed
FlushedRow(row, old, new) ==
    [row EXCEPT
       !.current_price = IF new.current_price # old.current_price
                         THEN new.current_price ELSE @,
       !.market_value = IF new.market_value # old.market_value
                        THEN new.market_value ELSE @,
       !.unrealized_pnl = IF new.unrealized_pnl # old.unrealized_pnl
                          THEN new.unrealized_pnl ELSE @]

\* _update_portfolio_value: the loop over the positions and the commit.
\* quotes gives get_quote's outcome for each selected position.  The flush
\* of a changed object whose row is gone raises StaleDataError: the
\* transaction is rolled back and execute_trade returns False.
RevalCommit(r, quotes) ==
    LET t == trade[r]
        s == sess[r]
        objs == {o \in s.pos : o.id \in loc[r].reval}
        newOf(o) == Revalued(o, quotes[o.id])
        quoted == {newOf(o) : o \in {x \in objs : quotes[x.id] # NoQuote}}
        total == s.cash + SumMarketValue(quoted)
        changed == {o \in objs : newOf(o) # o}
        stale == \E o \in changed : ~ \E row \in positions : row.id = o.id
    IN  /\ pc[r] = "reval_commit"
        /\ quotes \in [loc[r].reval -> QuoteOutcomes]
        /\ IF stale
           THEN /\ sess' = [sess EXCEPT ![r].broken = TRUE]
                /\ loc' = [loc EXCEPT ![r].success = FALSE,
                                      ![r].cause = "StaleDataError"]
                /\ UNCHANGED <<positions, total_value>>
           ELSE /\ total # s.totalLoaded => CanWritePortfolio(r, t.portfolio_id)
                /\ positions' =
                     {IF \E o \in changed : o.id = row.id
                      THEN LET o == CHOOSE x \in changed : x.id = row.id
                           IN  FlushedRow(row, o, newOf(o))
                      ELSE row : row \in positions}
                /\ total_value' = IF total # s.totalLoaded
                                   THEN [total_value EXCEPT ![t.portfolio_id] = total]
                                   ELSE total_value
                /\ sess' = [sess EXCEPT
                      ![r].pos = {IF o.id \in loc[r].reval THEN newOf(o) ELSE o
                                  : o \in s.pos},
                      ![r].total = total, ![r].totalLoaded = total]
                /\ loc' = loc
        /\ pc' = [pc EXCEPT ![r] = "ret"]
        /\ UNCHANGED <<hist, strategy, strategyTrades, execution, budget, cash, nextPosId, rowLock, kind, trade, pre>>

\* place_trade after execute_trade: HTTP 400 on False, the refreshed trade on
\* True
PlaceTradeReturn(r) ==
    /\ pc[r] = "ret"
    /\ kind[r] = "place"
    /\ pc' = [pc EXCEPT ![r] = "done"]
    /\ loc' = [loc EXCEPT ![r].detail =
                  IF loc[r].success THEN ""
                  ELSE "Trade execution failed - insufficient funds or shares"]
    /\ UNCHANGED <<hist, budget, cash, total_value, positions, nextPosId, rowLock,
                   kind, trade, sess, strategy, strategyTrades, execution, pre>>

\* execute_trade called on an order that exists already, PENDING or EXECUTED
\* by an earlier call, in a session that has loaded nothing yet
OrderStatuses == {"PENDING", "EXECUTED"}

ExecuteTradeCall(r, portfolio_id, symbol, order_type, quantity, price, status) ==
    /\ CanStart(r)
    /\ portfolio_id \in Portfolios
    /\ budget' = budget - 1
    /\ kind' = [kind EXCEPT ![r] = "engine"]
    /\ sess' = [sess EXCEPT ![r] = EmptySession]
    /\ trade' = [trade EXCEPT ![r] =
                   [TradeRow(portfolio_id, symbol, order_type, quantity, price, FALSE)
                      EXCEPT !.status = status,
                             !.executed_at = (status = "EXECUTED")]]
    /\ loc' = [loc EXCEPT ![r] = [NoLocals EXCEPT !.entry = status]]
    /\ pc' = [pc EXCEPT ![r] = "exec"]
    /\ UNCHANGED <<hist, strategy, strategyTrades, execution, cash, total_value,
                   positions, nextPosId, rowLock, pre>>

\* execute_trade has returned to its caller, which commits nothing more
ExecuteTradeReturned(r) ==
    /\ pc[r] = "ret"
    /\ kind[r] = "engine"
    /\ pc' = [pc EXCEPT ![r] = "done"]
    /\ UNCHANGED <<hist, budget, cash, total_value, positions, nextPosId, rowLock,
                   kind, trade, sess, loc, strategy, strategyTrades, execution, pre>>

\* get_db: the session is closed when the request is over, which rolls back
\* what it has not committed and releases its row lock
CloseSession(r) ==
    /\ pc[r] = "done"
    /\ pc' = [pc EXCEPT ![r] = "idle"]
    /\ kind' = [kind EXCEPT ![r] = "none"]
    /\ trade' = [trade EXCEPT ![r] = NoTrade]
    /\ sess' = [sess EXCEPT ![r] = EmptySession]
    /\ loc' = [loc EXCEPT ![r] = NoLocals]
    /\ pre' = [pre EXCEPT ![r] = NoPre]
    /\ execution' = [execution EXCEPT ![r] = NoExecution]
    /\ rowLock' = [p \in Portfolios |-> IF rowLock[p] = r THEN 0 ELSE rowLock[p]]
    /\ UNCHANGED <<hist, budget, cash, total_value, positions, nextPosId,
                   strategy, strategyTrades>>

\* ---------------------------------------------------- get_portfolio_summary
\* the summary endpoint up to the loop of get_portfolio_summary:
\* get_user_portfolios loads the user's portfolios with their positions,
\* get_portfolio_summary selects the portfolio and its positions
SummaryBegin(r, portfolio_id) ==
    /\ CanStart(r)
    /\ portfolio_id \in Portfolios
    /\ budget' = budget - 1
    /\ kind' = [kind EXCEPT ![r] = "summary"]
    /\ sess' = [sess EXCEPT ![r] =
                  [hasPf |-> TRUE,
                   cash |-> cash[portfolio_id], cashLoaded |-> cash[portfolio_id],
                   total |-> total_value[portfolio_id],
                   totalLoaded |-> total_value[portfolio_id],
                   pos |-> RowsOf(portfolio_id), deleted |-> {}, broken |-> FALSE]]
    /\ loc' = [loc EXCEPT ![r] =
                 [NoLocals EXCEPT !.reval = {row.id : row \in RowsOf(portfolio_id)}]]
    /\ pc' = [pc EXCEPT ![r] = "summary"]
    /\ UNCHANGED <<hist, cash, total_value, positions, nextPosId, rowLock, trade,
                   strategy, strategyTrades, execution, pre>>

\* the summary endpoint: the portfolio is not one of the current user's: 404
SummaryNotFound(r, portfolio_id) ==
    /\ CanStart(r)
    /\ portfolio_id \notin Portfolios
    /\ budget' = budget - 1
    /\ UNCHANGED <<hist, cash, total_value, positions, nextPosId, rowLock, pc, kind,
                   trade, sess, loc, strategy, strategyTrades, execution, pre>>

\* get_portfolio_summary: the quantity handed to update_position
SummaryQuantityDoubled(quantity) == quantity + quantity
SummaryQuantity(quantity) == quantity

\* get_portfolio_summary: one round of the loop, for the position with this
\* id: get_quote, whose fetch the feed answers, and with a quote
\* update_position, which commits
SummaryPosition(r, id, answer) ==
    LET s == sess[r]
        position == CHOOSE o \in s.pos : o.id = id
        quantity == SummaryQuantity(position.quantity)
        quote == GetQuote(answer)
    IN  /\ pc[r] = "summary"
        /\ id \in loc[r].reval
        /\ loc' = [loc EXCEPT ![r].reval = @ \ {id},
                              ![r].marks = @ \cup {<<position.symbol, quote>>},
                              ![r].failed = IF answer \in Prices THEN @
                                            ELSE @ \cup {id}]
        /\ IF quote = NoQuote
           THEN UNCHANGED <<positions, sess>>
           ELSE /\ positions' = UpdatedRows(id, quantity, position.average_cost, quote)
                /\ sess' = [sess EXCEPT ![r].pos =
                               UpdatedObjects(s.pos, id, quantity,
                                              position.average_cost, quote)]
        /\ UNCHANGED <<hist, budget, cash, total_value, nextPosId, rowLock, pc, kind,
                       trade, strategy, strategyTrades, execution, pre>>

RECURSIVE SumCost(_)
\* calculate_portfolio_performance: the sum of average_cost * quantity
SumCost(objs) ==
    IF objs = {} THEN <<0, 1>>
    ELSE LET o == CHOOSE x \in objs : TRUE
         IN  RatAdd(RatMulInt(o.average_cost, o.quantity), SumCost(objs \ {o}))

\* Python's floor division of integers
FloorDiv(a, b) == IF a >= 0 THEN a \div b ELSE -((-a + b - 1) \div b)

\* round(x, 2) of a rational x: the nearest hundredth, a tie going to the
\* even one
Round2Down(x) == Rat(FloorDiv(100 * x[1], x[2]), 100)
Round2(x) ==
    LET scaled == 100 * x[1]
        low == FloorDiv(scaled, x[2])
        twice == 2 * (scaled - low * x[2])
    IN  IF twice < x[2] THEN Rat(low, 100)
        ELSE IF twice > x[2] THEN Rat(low + 1, 100)
        ELSE IF low % 2 = 0 THEN Rat(low, 100)
        ELSE Rat(low + 1, 100)

\* calculate_portfolio_performance over the position objects
Performance(objs) ==
    LET total_cost == SumCost(objs)
        total_market_value == SumMarketValue(objs)
        total_gain_loss == RatSub(RatOfInt(total_market_value), total_cost)
    IN  [total_cost |-> total_cost,
         total_market_value |-> total_market_value,
         total_gain_loss |-> total_gain_loss,
         total_gain_loss_percent |->
             IF total_cost[1] > 0
             THEN Round2(Rat(total_gain_loss[1] * total_cost[2] * 100,
                             total_gain_loss[2] * total_cost[1]))
             ELSE <<0, 1>>]

\* get_portfolio_summary after the loop: calculate_portfolio_performance
\* selects the positions again and sums them; the summary is returned
SummaryReturn(r) ==
    LET s == sess[r]
        rows == RowsOf(1)
        objs == {ObjectFor(s, row) : row \in rows}
    IN  /\ pc[r] = "summary"
        /\ loc[r].reval = {}
        /\ sess' = [sess EXCEPT ![r].pos = Loaded(s, rows)]
        /\ hist' = [hist EXCEPT
              !.previous = hist.summary,
              !.summary = [done |-> TRUE, quotes |-> loc[r].marks,
                           positions |-> s.pos, stored |-> rows,
                           performance |-> Performance(objs)]]
        /\ pc' = [pc EXCEPT ![r] = "done"]
        /\ UNCHANGED <<budget, cash, total_value, positions, nextPosId, rowLock, kind,
                       trade, loc, strategy, strategyTrades, execution, pre>>

\* --------------------------------------------------- execute_webhook_signal
NoUser == 0            \* the user_id None that execute_webhook_signal passes
NoStrategy == [status |-> "NONE"]

\* get_strategy: the strategy of this id whose user_id equals the one given;
\* for None the comparison is user_id IS NULL
GetStrategy(user_id) ==
    IF strategy.user_id = user_id THEN strategy ELSE NoStrategy

\* execute_webhook_signal: no strategy is found, or it is not ACTIVE: the
\* signal is answered with an error and nothing is recorded
WebhookRejected(r) ==
    /\ CanStart(r)
    /\ \/ GetStrategy(NoUser) = NoStrategy
       \/ GetStrategy(NoUser).status # "ACTIVE"
    /\ budget' = budget - 1
    /\ hist' = [hist EXCEPT !.rejected = @ + 1]
    /\ UNCHANGED <<cash, total_value, positions, nextPosId, rowLock, pc, kind,
                   trade, sess, loc, strategy, strategyTrades, execution, pre>>

\* ---------------------------------------------------------- update_strategy
Users == {1, 2}        \* the users that call the strategy endpoints

\* update_strategy with a StrategyUpdate that sets status (the activate,
\* pause and stop endpoints, and PUT with a status): the strategy of the
\* caller gets the status as it is given and is committed; for another
\* user's strategy the answer is 404
UpdateStrategy(r, user_id, status) ==
    /\ CanStart(r)
    /\ budget' = budget - 1
    /\ strategy' = IF GetStrategy(user_id) = NoStrategy
                   THEN strategy
                   ELSE [strategy EXCEPT !.status = status]
    /\ UNCHANGED <<hist, cash, total_value, positions, nextPosId, rowLock, pc, kind,
                   trade, sess, loc, strategyTrades, execution, pre>>

\* --------------------------------------------------------- _process_signal
SignalActions == {"BUY", "SELL", "HOLD"}
SignalPrices == -1..MaxPrice         \* 0: the signal carries no price
SignalPercents == {0, SignalPercent} \* 0: the signal carries no percentage

Max(a, b) == IF a >= b THEN a ELSE b

\* Python's int() of a rational: truncation towards zero
Trunc(a) == IF a[1] >= 0 THEN a[1] \div a[2] ELSE -((-a[1]) \div a[2])

\* StrategyService._calculate_quantity
CalculateQuantity(st, price, percentage) ==
    IF percentage # 0 /\ price # 0 /\ price > 0
    THEN Max(1, Trunc(Rat(st.capital_allocation * percentage, 100 * price)))
    ELSE Max(1, Trunc(RatDivInt(RatMulInt(st.max_position_size, st.capital_allocation),
                                IF price # 0 THEN price ELSE DefaultPrice)))

\* _process_signal: the StrategyExecution created for a signal
ExecutionRow(action, symbol, quantity, price, percentage) ==
    [signal_type |-> action, symbol |-> symbol,
     quantity |-> IF quantity # 0 THEN quantity
                  ELSE CalculateQuantity(strategy, price, percentage),
     price |-> price, executed |-> FALSE, trade_id |-> FALSE,
     error_message |-> "", executed_at |-> FALSE,
     signal |-> [quantity |-> quantity, price |-> price, percentage |-> percentage]]

\* the signal leads to an order: BUY or SELL on an ACTIVE strategy
SignalTradesWhateverStatus(action) == action \in {"BUY", "SELL"}
SignalTradesAlsoHold(action) == strategy.status = "ACTIVE"
SignalTrades(action) == action \in {"BUY", "SELL"} /\ strategy.status = "ACTIVE"

\* _process_signal up to the call of execute_trade: the execution record is
\* committed, _create_trade_from_signal resolves the price (the live quote
\* when execution.price is 0) and commits the order
ProcessSignalTrade(r, action, symbol, quantity, price, percentage, answer) ==
    LET e == ExecutionRow(action, symbol, quantity, price, percentage)
        resolved == IF e.price = 0 THEN GetQuote(answer) ELSE e.price
    IN  /\ CanStart(r)
        /\ SignalTrades(action)
        /\ IF e.price = 0 THEN answer # NoQuote ELSE answer = NoQuote
        /\ budget' = budget - 1
        /\ kind' = [kind EXCEPT ![r] = "signal"]
        /\ execution' = [execution EXCEPT ![r] = [e EXCEPT !.price = resolved]]
        /\ trade' = [trade EXCEPT ![r] =
                       TradeRow(strategy.portfolio_id, symbol, action,
                                e.quantity, resolved, TRUE)]
        /\ sess' = [sess EXCEPT ![r] = EmptySession]
        /\ loc' = [loc EXCEPT ![r] = NoLocals]
        /\ pc' = [pc EXCEPT ![r] = "exec"]
        /\ hist' = [hist EXCEPT !.executions = @ + 1]
        /\ UNCHANGED <<cash, total_value, positions, nextPosId, rowLock,
                       strategy, strategyTrades, pre>>

\* _process_signal without an order: a HOLD signal, a strategy that is not
\* ACTIVE, or no quote for a signal without a price (ValueError, caught)
ProcessSignalNoTrade(r, action, symbol, quantity, price, percentage) ==
    LET e == ExecutionRow(action, symbol, quantity, price, percentage)
    IN  /\ CanStart(r)
        /\ SignalTrades(action) => e.price = 0
        /\ budget' = budget - 1
        /\ kind' = [kind EXCEPT ![r] = "signal"]
        /\ execution' = [execution EXCEPT ![r] =
              IF SignalTrades(action)
              THEN [e EXCEPT !.error_message = "Could not get market data"]
              ELSE e]
        /\ sess' = [sess EXCEPT ![r] = EmptySession]
        /\ loc' = [loc EXCEPT ![r] = NoLocals]
        /\ pc' = [pc EXCEPT ![r] = "finish"]
        /\ hist' = [hist EXCEPT !.executions = @ + 1]
        /\ UNCHANGED <<cash, total_value, positions, nextPosId, rowLock,
                       trade, strategy, strategyTrades, pre>>

\* _update_strategy_metrics: total_trades becomes the number of the
\* strategy's EXECUTED trades, if there is any
UpdateStrategyMetricsStampOnly(trades) ==
    IF trades > 0 THEN [strategy EXCEPT !.last_executed_at = TRUE] ELSE strategy
UpdateStrategyMetrics(trades) ==
    IF trades > 0
    THEN [strategy EXCEPT !.total_trades = trades, !.last_executed_at = TRUE]
    ELSE strategy

\* _process_signal after execute_trade: the outcome goes into the execution
\* record, _update_strategy_metrics recounts the strategy's EXECUTED trades,
\* and db.commit() persists whatever the session holds.  After a failed
\* flush the commit raises and persists nothing.
ProcessSignalReturn(r) ==
    LET s == sess[r]
        filled == pc[r] = "ret" /\ loc[r].success
        rejected == pc[r] = "ret" /\ ~ loc[r].success
        pid == strategy.portfolio_id
    IN  /\ pc[r] \in {"ret", "finish"}
        /\ kind[r] = "signal"
        /\ IF s.broken
           THEN UNCHANGED <<cash, rowLock, execution, strategy, sess>>
           ELSE /\ CashDirty(s) => CanWritePortfolio(r, pid)
                /\ CommitCash(r, pid)
                /\ sess' = [sess EXCEPT ![r].cashLoaded = s.cash]
                /\ execution' = [execution EXCEPT
                      ![r].executed = filled,
                      ![r].trade_id = filled,
                      ![r].error_message =
                          IF rejected THEN "Trade execution failed" ELSE @,
                      ![r].executed_at = TRUE]
                /\ strategy' = IF filled
                               THEN UpdateStrategyMetrics(strategyTrades)
                               ELSE strategy
        /\ pc' = [pc EXCEPT ![r] = "done"]
        /\ UNCHANGED <<hist, budget, total_value, positions, nextPosId,
                       kind, trade, loc, strategyTrades, pre>>

\* ----------------------------------------------------------- the system
\* the steps of a request in progress; the feed gives an answer of fills to
\* execute_trade's fetch, and get_quote an outcome of marks to a revaluation
Continue(r, fills, marks) ==
    \/ \E answer \in fills : ExecuteBuy(r, answer)
    \/ \E answer \in fills : ExecuteSell(r, answer)
    \/ BuyLookup(r)
    \/ BuyWrite(r)
    \/ SellLookup(r)
    \/ SellWrite(r)
    \/ UpdateTradeStatus(r)
    \/ RevalBegin(r)
    \/ \E quotes \in [loc[r].reval -> marks] : RevalCommit(r, quotes)
    \/ PlaceTradeReturn(r)
    \/ CloseSession(r)

\* One request at a time, each in a session of its own: orders placed
\* through place_trade and signals handed to _process_signal
Next ==
    \/ \E p \in FirstPortfolio, sym \in Symbols, ot \in OrderTypes,
          q \in Quantities, px \in Prices :
           PlaceTrade(1, p, sym, ot, q, px)
    \/ PlaceTradeNotFound(1, NoPortfolio)
    \/ \E a \in SignalActions, sym \in Symbols, q \in Quantities,
          px \in SignalPrices, pct \in SignalPercents, answer \in FeedAnswers :
           ProcessSignalTrade(1, a, sym, q, px, pct, answer)
    \/ \E a \in SignalActions, sym \in Symbols, q \in Quantities,
          px \in SignalPrices, pct \in SignalPercents :
           ProcessSignalNoTrade(1, a, sym, q, px, pct)
    \/ WebhookRejected(1)
    \/ \E user_id \in Users, status \in StrategyStatuses :
           UpdateStrategy(1, user_id, status)
    \/ ProcessSignalReturn(1)
    \/ ExecuteTradeNoQuote(1)
    \/ Continue(1, FeedAnswers, QuoteOutcomes)

Spec == Init /\ [][Next]_vars

\* Overlapping place_trade requests for "A", of positive quantity, while
\* the feed answers every fetch
NextConc ==
    \E r \in Req :
        \/ \E p \in FirstPortfolio, ot \in OrderTypes, q \in 1..MaxQty :
               PlaceTrade(r, p, "A", ot, q, MaxPrice)
        \/ Continue(r, Prices, Prices)

SpecConc == InitConc /\ [][NextConc]_vars

\* Overlapping place_trade requests for "A" of any quantity from 0 on, which
\* TradeCreate accepts as it accepts the positive ones
NextConcAll ==
    \E r \in Req :
        \/ \E p \in FirstPortfolio, ot \in OrderTypes, q \in 0..MaxQty :
               PlaceTrade(r, p, "A", ot, q, MaxPrice)
        \/ Continue(r, Prices, Prices)

SpecConcAll == InitConc /\ [][NextConcAll]_vars

\* Orders for "A" placed through place_trade and summaries of the portfolio,
\* overlapping, each request on its own session
NextMix ==
    \E r \in Req :
        \/ \E p \in FirstPortfolio, ot \in OrderTypes, q \in 1..MaxQty :
               PlaceTrade(r, p, "A", ot, q, MaxPrice)
        \/ SummaryBegin(r, 1)
        \/ \E id \in loc[r].reval, answer \in Prices \cup {NoQuote} :
               SummaryPosition(r, id, answer)
        \/ SummaryReturn(r)
        \/ Continue(r, Prices, Prices \cup {NoQuote})

SpecMix == InitConc /\ [][NextMix]_vars

\* Two portfolios of one user: the second holds a share of "A", the first
\* holds one or none
HoldingsOfBoth ==
    {[cash |-> InitialCash - 1, total_value |-> InitialCash,
      positions |-> first \cup {PositionRow(2, 2, "A", 1, RatOfInt(1), 1)},
      nextPosId |-> 3, removed |-> {}, trades |-> 1]
       : first \in {{}, {PositionRow(1, 1, "A", 1, RatOfInt(1), 1)}}}

InitBoth ==
    \E holding \in HoldingsOfBoth : InitWith(holding, MaxConcOps, "ACTIVE", 0)

\* Orders for "A" placed through place_trade on either portfolio, overlapping
NextBoth ==
    \E r \in Req :
        \/ \E p \in Portfolios, ot \in OrderTypes, q \in 1..MaxQty :
               PlaceTrade(r, p, "A", ot, q, MaxPrice)
        \/ Continue(r, Prices, Prices)

SpecBoth == InitBoth /\ [][NextBoth]_vars

\* the steps of request r once it has been received, the feed answering
\* with the price MaxPrice or without a quote
Proceed(r) ==
    \/ ExecuteTradeNoQuote(r)
    \/ Continue(r, {MaxPrice}, {MaxPrice})

\* a portfolio that has bought one share of "A" at the price 1
InitLive ==
    \E holding \in {h \in Holdings : h.cash = InitialCash - 1 /\ h.removed = {}} :
        InitWith(holding, MaxConcOps, "ACTIVE", 0)

\* Overlapping place_trade requests whose awaits all end: the event loop
\* resumes a request whenever what it awaits (the feed's answer, the
\* database's, a row lock) is there
NextLive ==
    \E r \in Req :
        \/ \E p \in FirstPortfolio, ot \in OrderTypes, q \in 1..MaxQty :
               PlaceTrade(r, p, "A", ot, q, MaxPrice)
        \/ Proceed(r)

SpecLive ==
    /\ InitLive
    /\ [][NextLive]_vars
    /\ \A r \in Req : WF_vars(Proceed(r))

\* Signals handed to _process_signal one after the other, for an ACTIVE
\* strategy whose capital_allocation is the default 0.0 or CapitalAllocation
InitSignal ==
    \E holding \in Holdings, capital \in {0, CapitalAllocation} :
        InitOf(holding, MaxOps,
               [StrategyRow("ACTIVE", 0) EXCEPT !.capital_allocation = capital], 0)

NextSignal ==
    \/ \E a \in SignalActions, sym \in Symbols, q \in Quantities,
          px \in SignalPrices, pct \in SignalPercents, answer \in FeedAnswers :
           ProcessSignalTrade(1, a, sym, q, px, pct, answer)
    \/ \E a \in SignalActions, sym \in Symbols, q \in Quantities,
          px \in SignalPrices, pct \in SignalPercents :
           ProcessSignalNoTrade(1, a, sym, q, px, pct)
    \/ ProcessSignalReturn(1)
    \/ ExecuteTradeNoQuote(1)
    \/ \E answer \in FeedAnswers : ExecuteBuy(1, answer)
    \/ \E answer \in FeedAnswers : ExecuteSell(1, answer)
    \/ BuyLookup(1)
    \/ BuyWrite(1)
    \/ SellLookup(1)
    \/ SellWrite(1)
    \/ UpdateTradeStatus(1)
    \/ RevalBegin(1)
    \/ \E quotes \in [loc[1].reval -> QuoteOutcomes] : RevalCommit(1, quotes)
    \/ CloseSession(1)

SpecSignal == InitSignal /\ [][NextSignal]_vars

\* execute_trade called by itself, one call after the other, on orders of
\* positive quantity
NextEngine ==
    \/ \E p \in FirstPortfolio, sym \in Symbols, ot \in OrderTypes,
          q \in 1..MaxQty, status \in OrderStatuses :
           ExecuteTradeCall(1, p, sym, ot, q, MaxPrice, status)
    \/ ExecuteTradeNoQuote(1)
    \/ \E answer \in FeedAnswers : ExecuteBuy(1, answer)
    \/ \E answer \in FeedAnswers : ExecuteSell(1, answer)
    \/ BuyLookup(1)
    \/ BuyWrite(1)
    \/ SellLookup(1)
    \/ SellWrite(1)
    \/ UpdateTradeStatus(1)
    \/ RevalBegin(1)
    \/ \E quotes \in [loc[1].reval -> QuoteOutcomes] : RevalCommit(1, quotes)
    \/ ExecuteTradeReturned(1)
    \/ CloseSession(1)

SpecEngine == Init /\ [][NextEngine]_vars

\* Summaries of the portfolio requested one after the other, with no order
\* in between
NextReval ==
    \/ SummaryBegin(1, 1)
    \/ SummaryNotFound(1, NoPortfolio)
    \/ \E id \in loc[1].reval, answer \in FeedAnswers : SummaryPosition(1, id, answer)
    \/ SummaryReturn(1)
    \/ CloseSession(1)

SpecReval == InitReval /\ [][NextReval]_vars

\* ================================================================ claims
\* the amount of request r's order at the price it was filled at
Amount(r) == trade[r].quantity * loc[r].current_price

\* execute_trade has been called for request r and has returned
Returned(r) == pc[r] \in {"ret", "done"} /\ trade[r] # NoTrade

\* the request is over: every commit it makes has been made
Over(r) == pc[r] = "done" /\ trade[r] # NoTrade

\* a quote was available to request r's execute_trade
Quoted(r) == loc[r].current_price # NoQuote

\* this step commits the debit or credit of request r's fill
FillCommits(r) ==
    \/ pc[r] \in {"buy_write", "sell_write"} /\ pc'[r] = "status"
    \/ pc[r] = "status" /\ sess[r].deleted # {} /\ pc'[r] = "reval"

\* the shares of symbol committed in rows
RECURSIVE SumQuantity(_)
SumQuantity(rows) ==
    IF rows = {} THEN 0
    ELSE LET x == CHOOSE y \in rows : TRUE
         IN  x.quantity + SumQuantity(rows \ {x})

HeldIn(rows, symbol) == SumQuantity({x \in rows : x.symbol = symbol})

\* C1: each fill changes the committed cash_balance by exactly quantity x
\* fill price: a BUY lowers it by that amount, a SELL raises it by it.
C1_FillMovesCashByAmount ==
    [][\A r \in Req :
         FillCommits(r) =>
            cash'[trade[r].portfolio_id] =
               IF trade[r].order_type = "BUY"
               THEN cash[trade[r].portfolio_id] - Amount(r)
               ELSE cash[trade[r].portfolio_id] + Amount(r)]_vars

\* a SELL of more than one share has been filled and has credited cash
C1_Witness ==
    \E r \in Req :
        /\ trade[r] # NoTrade /\ trade[r].order_type = "SELL"
        /\ trade[r].status = "EXECUTED" /\ trade[r].quantity > 1
        /\ cash[trade[r].portfolio_id] = pre[r].cash + Amount(r)

\* C2: cash_balance is never negative.
C2_CashNeverNegative == \A p \in Portfolios : cash[p] >= 0

\* C3: two orders executed concurrently against one portfolio leave the
\* cash and the shares that executing them one after the other leaves: both
\* debits/credits and both changes of quantity are in the committed state.
C3_ConcurrentOrdersSerialise ==
    \A a, b \in Req :
        (/\ a # b /\ Over(a) /\ Over(b)
         /\ trade[a].status = "EXECUTED" /\ trade[b].status = "EXECUTED"
         /\ pre[a].cash = pre[b].cash /\ pre[a].positions = pre[b].positions)
        => LET signed(r) == IF trade[r].order_type = "BUY" THEN 1 ELSE -1
           IN  /\ cash[1] = pre[a].cash - signed(a) * Amount(a) - signed(b) * Amount(b)
               /\ \A sym \in Symbols :
                    HeldIn(positions, sym) =
                       HeldIn(pre[a].positions, sym)
                       + (IF trade[a].symbol = sym
                          THEN signed(a) * trade[a].quantity ELSE 0)
                       + (IF trade[b].symbol = sym
                          THEN signed(b) * trade[b].quantity ELSE 0)

\* C4: when execute_trade has failed, cash_balance, the positions and the
\* order's status are, once the request is over, as committed before the call.
C4_FailedTradeLeavesNoTrace ==
    \A r \in Req :
        (Over(r) /\ ~ loc[r].success)
        => /\ cash[trade[r].portfolio_id] = pre[r].cash
           /\ RowsOf(trade[r].portfolio_id) = pre[r].positions
           /\ trade[r].status = "PENDING"

\* C5: the committed cash and positions reflect an order's fill if and only
\* if the order's committed status is EXECUTED (stated for the orders of
\* positive quantity).
C5_FillAtomicWithStatus ==
    \A r \in Req :
        (trade[r] # NoTrade /\ pc[r] \notin {"idle", "exec"} /\ trade[r].quantity > 0)
        => /\ (\/ cash[trade[r].portfolio_id] # pre[r].cash
               \/ RowsOf(trade[r].portfolio_id) # pre[r].positions)
              => trade[r].status = "EXECUTED"
           /\ trade[r].status = "EXECUTED" => pre[r].applied

\* the portfolio held no position in the order's symbol, or fewer shares than
\* the order's quantity, when execute_trade was called
LacksShares(r) ==
    LET rows == {x \in pre[r].positions : x.symbol = trade[r].symbol}
    IN  \/ rows = {}
        \/ \E x \in rows : x.quantity < trade[r].quantity

\* C6 as claimed: a SELL is rejected if and only if the portfolio lacks the
\* shares (stated for the orders of positive quantity).
C6_SellRejectedIffLacksShares ==
    \A r \in Req :
        (Returned(r) /\ trade[r].order_type = "SELL" /\ trade[r].quantity > 0)
        => (trade[r].status # "EXECUTED" <=> LacksShares(r))

\* C6 amended: a SELL for whose symbol a quote is available is rejected if
\* and only if the portfolio lacks the shares; otherwise it is filled.
C6_QuotedSellRejectedIffLacksShares ==
    \A r \in Req :
        (Returned(r) /\ trade[r].order_type = "SELL" /\ Quoted(r))
        => (trade[r].status # "EXECUTED" <=> LacksShares(r))

\* a SELL of exactly the shares held has been filled
C6_Witness ==
    \E r \in Req :
        /\ Returned(r) /\ trade[r].order_type = "SELL" /\ Quoted(r)
        /\ trade[r].status = "EXECUTED"
        /\ HeldIn(pre[r].positions, trade[r].symbol) = trade[r].quantity
        /\ trade[r].quantity > 0

\* C7: a BUY whose quantity x price exceeds cash_balance is rejected; cash,
\* the positions and the order's PENDING status are left as they were.
C7_UnaffordableBuyRejected ==
    \A r \in Req :
        (/\ Returned(r) /\ trade[r].order_type = "BUY" /\ Quoted(r)
         /\ Amount(r) > pre[r].cash)
        => /\ ~ loc[r].success
           /\ trade[r].status = "PENDING"
           /\ cash[trade[r].portfolio_id] = pre[r].cash
           /\ RowsOf(trade[r].portfolio_id) = pre[r].positions

\* an unaffordable BUY has been through execute_trade and its request is over
C7_Witness ==
    \E r \in Req :
        /\ Over(r) /\ trade[r].order_type = "BUY" /\ Quoted(r)
        /\ Amount(r) > pre[r].cash
        /\ pre[r].positions # {}

\* C8: a BUY fill of q at p on a position (old_qty, old_avg) leaves quantity
\* old_qty + q and average cost (old_avg*old_qty + q*p) / (old_qty + q); on
\* a symbol not held it creates the position (q, p).
C8_BuyAveragesCost ==
    [][\A r \in Req :
         (pc[r] = "buy_write" /\ pc'[r] = "status")
         => LET pid == trade[r].portfolio_id
                sym == trade[r].symbol
                q == trade[r].quantity
                p == loc[r].current_price
                old == RowsOfSymbol(pid, sym)
                new == {x \in positions' : x.portfolio_id = pid /\ x.symbol = sym}
            IN  IF old = {}
                THEN \E x \in new :
                        /\ new = {x}
                        /\ x.quantity = q
                        /\ x.average_cost = <<p, 1>>
                ELSE \A o \in old : \E x \in new :
                        /\ x.id = o.id
                        /\ x.quantity = o.quantity + q
                        /\ x.average_cost[1] * o.average_cost[2] * (o.quantity + q)
                             = (o.average_cost[1] * o.quantity
                                + q * p * o.average_cost[2]) * x.average_cost[2]]_vars

\* a BUY at another price than the cost basis has been added to a position
C8_Witness ==
    \E r \in Req :
        /\ trade[r] # NoTrade /\ trade[r].order_type = "BUY" /\ pc[r] = "status"
        /\ \E o \in pre[r].positions : \E x \in positions :
              /\ x.id = o.id /\ x.symbol = trade[r].symbol
              /\ x.quantity > o.quantity /\ o.quantity > 0
              /\ x.average_cost # o.average_cost

\* C9: a SELL fill that leaves shares keeps the position's average cost.
C9_SellKeepsAverageCost ==
    [][\A r \in Req :
         (pc[r] = "sell_write" /\ pc'[r] = "status")
         => \A o \in RowsOfSymbol(trade[r].portfolio_id, trade[r].symbol) :
               \E x \in positions' :
                  /\ x.id = o.id
                  /\ x.quantity = o.quantity - trade[r].quantity
                  /\ x.quantity > 0 => x.average_cost = o.average_cost]_vars

\* part of a position has been sold at another price than its cost basis
C9_Witness ==
    \E r \in Req :
        /\ trade[r] # NoTrade /\ trade[r].order_type = "SELL" /\ pc[r] = "status"
        /\ trade[r].quantity > 0
        /\ \E o \in pre[r].positions : \E x \in positions :
              /\ x.id = o.id /\ x.quantity > 0 /\ x.quantity < o.quantity
              /\ x.average_cost = o.average_cost
              /\ x.average_cost # <<loc[r].current_price, 1>>

\* C10: every stored position has quantity > 0.
C10_PositionsHoldShares == \A row \in positions : row.quantity > 0

\* C11: after a position was sold down to 0 and removed, the next BUY fill
\* of its symbol creates a fresh position whose quantity is the fill's
\* quantity and whose average cost is the fill's price, whatever the cost
\* basis of the removed position was.
C11_RebuyStartsFresh ==
    [][\A r \in Req :
         (/\ pc[r] = "buy_write" /\ pc'[r] = "status"
          /\ \E x \in hist.removed : x.symbol = trade[r].symbol
          /\ RowsOfSymbol(trade[r].portfolio_id, trade[r].symbol) = {})
         => \E x \in positions' :
               /\ x.id = nextPosId /\ x.id \notin {row.id : row \in positions}
               /\ positions' = positions \cup {x}
               /\ x.portfolio_id = trade[r].portfolio_id
               /\ x.symbol = trade[r].symbol
               /\ x.quantity = trade[r].quantity
               /\ x.average_cost = <<loc[r].current_price, 1>>]_vars

\* a symbol whose position was removed has been bought again, at another
\* price than the removed position's cost basis
C11_Witness ==
    \E r \in Req :
        /\ trade[r] # NoTrade /\ trade[r].order_type = "BUY" /\ pc[r] = "status"
        /\ trade[r].quantity > 0
        /\ \E x \in hist.removed : \E row \in positions :
              /\ x.symbol = trade[r].symbol /\ row.symbol = x.symbol
              /\ row.average_cost # x.average_cost
              /\ row.average_cost = <<loc[r].current_price, 1>>

\* the upstream feed (or the quote cache) supplied a price to request r's
\* execute_trade
Supplied(r) == loc[r].feed \in Prices

\* C12: if no quote is available for the order's symbol, execute_trade
\* rejects the order: it stays PENDING, and cash_balance and the positions
\* are as they were (stated for the orders of positive quantity).
C12_NoQuoteRejects ==
    \A r \in Req :
        (Returned(r) /\ ~ Supplied(r) /\ trade[r].quantity > 0)
        => /\ ~ loc[r].success
           /\ trade[r].status = "PENDING"
           /\ cash[trade[r].portfolio_id] = pre[r].cash
           /\ RowsOf(trade[r].portfolio_id) = pre[r].positions

\* the part of C12 the code keeps: when get_quote returns nothing the order
\* is rejected and nothing is changed
C12_NoneFromGetQuoteRejects ==
    \A r \in Req :
        (Returned(r) /\ ~ Quoted(r))
        => /\ ~ loc[r].success
           /\ trade[r].status = "PENDING"
           /\ cash[trade[r].portfolio_id] = pre[r].cash
           /\ RowsOf(trade[r].portfolio_id) = pre[r].positions

\* what the caller of place_trade receives for request r: the value
\* execute_trade returned and the detail of the HTTP error
Report(r) == [success |-> loc[r].success, detail |-> loc[r].detail]

\* the reasons of a rejection the caller is to be told apart
Reasons == {"QuoteUnavailable", "InsufficientFunds", "InsufficientShares"}

\* C13: an order that cannot be executed is reported with its reason: two
\* orders rejected for different reasons are reported differently.
C13_RejectionNamesReason ==
    \A a, b \in Req :
        (/\ Over(a) /\ Over(b)
         /\ loc[a].cause \in Reasons /\ loc[b].cause \in Reasons
         /\ loc[a].cause # loc[b].cause)
        => Report(a) # Report(b)

\* C14: a second summary with no fill in between and the same quote for
\* every held symbol leaves current_price, market_value and unrealized_pnl
\* of every position, and the performance aggregates, as the first left them.
C14_RevaluationIdempotent ==
    (/\ hist.summary.done /\ hist.previous.done
     /\ hist.summary.quotes = hist.previous.quotes)
    => /\ hist.summary.stored = hist.previous.stored
       /\ hist.summary.positions = hist.previous.positions
       /\ hist.summary.performance = hist.previous.performance

\* two summaries have run with the same quotes, and the first one moved a
\* position away from its cost basis
C14_Witness ==
    /\ hist.summary.done /\ hist.previous.done
    /\ hist.summary.quotes = hist.previous.quotes
    /\ \E row \in hist.previous.stored :
          /\ row.unrealized_pnl # <<0, 1>>
          /\ <<row.symbol, row.current_price>> \in hist.summary.quotes

\* C15: after execute_trade has returned success, total_value is
\* cash_balance plus the market_value of every position of the portfolio, a
\* position without a quote counting at its last known market value (stated
\* for the orders of positive quantity).
C15_TotalValueIsCashPlusPositions ==
    \A r \in Req :
        (Returned(r) /\ loc[r].success /\ trade[r].quantity > 0)
        => total_value[trade[r].portfolio_id] =
              cash[trade[r].portfolio_id]
              + SumMarketValue(RowsOf(trade[r].portfolio_id))

\* request r processed a signal that led to an order
SignalOrder(r) == kind[r] = "signal" /\ trade[r] # NoTrade

\* the price the order of request r's signal is to carry: the signal's if it
\* is > 0, else the live quote _create_trade_from_signal fetched
ResolvedPrice(r) ==
    IF execution[r].signal.price > 0 THEN execution[r].signal.price
    ELSE execution[r].price

\* C16: a signal with a percentage and no quantity yields the quantity
\* max(1, floor(capital_allocation * percentage/100 / price)), price being
\* the signal's price if present and > 0 and else the live quote.
C16_PercentageSizesOrder ==
    \A r \in Req :
        (/\ SignalOrder(r)
         /\ execution[r].signal.quantity = 0
         /\ execution[r].signal.percentage # 0
         /\ execution[r].signal.price >= 0)
        => trade[r].quantity =
              Max(1, FloorDiv(strategy.capital_allocation * execution[r].signal.percentage,
                              100 * ResolvedPrice(r)))

\* C17: the order of a signal carries the signal's price if that is present
\* and > 0, and else the price of a live quote; without such a price and
\* without a quote there is no order (stated for the orders of positive
\* quantity).
C17_OrderCarriesResolvedPrice ==
    \A r \in Req :
        (SignalOrder(r) /\ trade[r].quantity > 0)
        => IF execution[r].signal.price > 0
           THEN trade[r].price = execution[r].signal.price
           ELSE trade[r].price \in QuoteOutcomes \ {NoQuote}

\* C18: a signal for a strategy that is not ACTIVE creates no order and
\* changes no cash, no position and none of the strategy's counters.
C18_InactiveStrategyIgnoresSignals ==
    [][(/\ strategy.status # "ACTIVE"
        /\ \E r \in Req : kind[r] = "signal" \/ kind'[r] = "signal")
       => /\ \A r \in Req : trade'[r] = NoTrade
          /\ UNCHANGED <<cash, total_value, positions, strategy, strategyTrades>>]_vars

\* a BUY signal for a strategy that is not ACTIVE has been processed, on a
\* portfolio that holds a position
C18_Witness ==
    \E r \in Req :
        /\ kind[r] = "signal" /\ pc[r] = "done"
        /\ strategy.status # "ACTIVE"
        /\ execution[r].signal_type = "BUY"
        /\ execution[r].executed_at
        /\ positions # {}

\* C19: a HOLD signal makes exactly one Strategy Execution record, with
\* executed = false and no trade_id, and makes no Trade and changes no cash
\* and no position.
C19_HoldIsLoggedOnly ==
    [][\A r \in Req :
          execution'[r].signal_type = "HOLD"
          => /\ trade'[r] = NoTrade
             /\ ~ execution'[r].executed
             /\ ~ execution'[r].trade_id
             /\ hist'.executions = hist.executions
                    + (IF execution[r].signal_type = "HOLD" THEN 0 ELSE 1)
             /\ UNCHANGED <<cash, total_value, positions>>]_vars

\* a HOLD signal for an ACTIVE strategy has been processed to its end, on a
\* portfolio that holds a position
C19_Witness ==
    \E r \in Req :
        /\ kind[r] = "signal" /\ pc[r] = "done"
        /\ strategy.status = "ACTIVE"
        /\ execution[r].signal_type = "HOLD"
        /\ execution[r].executed_at
        /\ positions # {}

\* C20: when the order of a signal is filled, the strategy's total_trades
\* goes up by exactly 1 and last_executed_at is set; when it is rejected,
\* total_trades stays as it was.
C20_FilledSignalCountsOnce ==
    [][\A r \in Req :
          (kind[r] = "signal" /\ pc[r] = "ret" /\ pc'[r] = "done")
          => IF trade[r].status = "EXECUTED"
             THEN /\ strategy'.total_trades = strategy.total_trades + 1
                  /\ strategy'.last_executed_at
             ELSE strategy'.total_trades = strategy.total_trades]_vars

\* the order of a signal has been filled for a strategy that had trades
\* before, and the strategy's counters have been updated
C20_Witness ==
    \E r \in Req :
        /\ kind[r] = "signal" /\ pc[r] = "done"
        /\ trade[r].status = "EXECUTED"
        /\ execution[r].executed
        /\ strategy.total_trades >= 2

\* the transitions of a strategy's status that are allowed
AllowedTransitions ==
    {<<"DRAFT", "ACTIVE">>, <<"ACTIVE", "PAUSED">>, <<"PAUSED", "ACTIVE">>}
        \cup {<<from, "STOPPED">> : from \in StrategyStatuses \ {"STOPPED"}}

\* C21: a strategy's status changes only along DRAFT->ACTIVE, ACTIVE->PAUSED,
\* PAUSED->ACTIVE and any->STOPPED; STOPPED is terminal.
C21_StatusFollowsTransitions ==
    [][strategy'.status # strategy.status
       => <<strategy.status, strategy'.status>> \in AllowedTransitions]_vars

\* C22: an order's status moves only from PENDING to EXECUTED or CANCELLED
\* and never changes afterwards; executed_at is set only on an EXECUTED
\* order, and an order that was rejected is not EXECUTED and has no
\* executed_at.
C22_OrderStatusMovesOnce ==
    [][\A r \in Req :
          (trade[r] # NoTrade /\ trade'[r] # NoTrade)
          => /\ trade'[r].status # trade[r].status
                => /\ trade[r].status = "PENDING"
                   /\ trade'[r].status \in {"EXECUTED", "CANCELLED"}
             /\ trade'[r].executed_at => trade'[r].status = "EXECUTED"
             /\ (Returned(r)' /\ ~ loc'[r].success)
                => /\ trade'[r].status # "EXECUTED"
                   /\ ~ trade'[r].executed_at]_vars

\* the shares held, per portfolio and symbol
Shares == {<<row.portfolio_id, row.symbol, row.quantity>> : row \in positions}

C24_OnePositionPerSymbol ==
    \A a, b \in positions :
        (a.portfolio_id = b.portfolio_id /\ a.symbol = b.symbol) => a.id = b.id

\* what a revaluation is to leave alone: the quantity and the average cost
\* of every position
Holding == {[id |-> row.id, quantity |-> row.quantity,
             average_cost |-> row.average_cost] : row \in positions}

\* this step is a write of a revaluation of request r: a round of
\* get_portfolio_summary's loop, or the commit of _update_portfolio_value
Revalues(r) ==
    \/ pc[r] = "summary" /\ loc'[r] # loc[r]
    \/ pc[r] = "reval_commit" /\ pc'[r] # pc[r]

\* C25: a revaluation changes no position's quantity or average_cost and not
\* the cash, also when a fill commits between its read and its write.
C25_RevaluationKeepsHoldings ==
    [][\A r \in Req : Revalues(r) => UNCHANGED <<cash, Holding>>]_vars

\* C26: every stored position has market_value = quantity * current_price
\* and unrealized_pnl = (current_price - average_cost) * quantity.
C26_PositionValuesConsistent ==
    \A row \in positions :
        /\ row.market_value = MarketValue(row.quantity, row.current_price)
        /\ row.unrealized_pnl =
               UnrealizedPnl(row.quantity, row.average_cost, row.current_price)

\* C27: in a revaluation a position whose quote fetch fails keeps its
\* current_price, market_value and unrealized_pnl, while the other positions
\* are refreshed and the revaluation completes.
C27_FailedFetchKeepsPosition ==
    [][\A r \in Req :
          (pc[r] = "summary" /\ loc'[r].failed # loc[r].failed)
          => UNCHANGED positions]_vars

\* C28: get_portfolio_summary refreshes the positions and sets total_value
\* to cash_balance plus the sum of the positions' market values: the
\* portfolio of the summary, and the stored one, have that total_value.
C28_SummarySetsTotalValue ==
    \A r \in Req :
        (kind[r] = "summary" /\ pc[r] = "done")
        => /\ sess[r].total = sess[r].cash + SumMarketValue(hist.summary.stored)
           /\ total_value[1] = cash[1] + SumMarketValue(RowsOf(1))

\* total_gain_loss / total_cost * 100, for a total_cost that is not 0
ExactPercent(total_gain_loss, total_cost) ==
    Rat(total_gain_loss[1] * total_cost[2] * 100,
        total_gain_loss[2] * total_cost[1])

\* the sums the last summary's aggregates are to be, over the stored
\* positions the summary left
SummedCost == SumCost(hist.summary.stored)
SummedMarketValue == SumMarketValue(hist.summary.stored)
SummedGainLoss == RatSub(RatOfInt(SummedMarketValue), SummedCost)

\* total_cost, total_market_value and total_gain_loss of the last summary
\* are these sums
SumsAgree ==
    /\ hist.summary.performance.total_cost = SummedCost
    /\ hist.summary.performance.total_market_value = SummedMarketValue
    /\ hist.summary.performance.total_gain_loss = SummedGainLoss

\* C29 as stated: the aggregates are the sums over the positions, and
\* total_gain_loss_percent is total_gain_loss / total_cost * 100, and 0 when
\* total_cost is 0.
C29_PerformanceAggregates ==
    hist.summary.done
    => /\ SumsAgree
       /\ hist.summary.performance.total_gain_loss_percent =
              IF SummedCost[1] = 0 THEN <<0, 1>>
              ELSE ExactPercent(SummedGainLoss, SummedCost)

\* C29: the aggregates are the sums over the positions, and
\* total_gain_loss_percent is total_gain_loss / total_cost * 100 rounded to
\* the nearest hundredth, and 0 when total_cost is not above 0.
C29_PerformanceAggregatesRounded ==
    hist.summary.done
    => /\ SumsAgree
       /\ LET percent == hist.summary.performance.total_gain_loss_percent
          IN  IF SummedCost[1] > 0
              THEN LET off == RatSub(percent, ExactPercent(SummedGainLoss, SummedCost))
                   IN  /\ 100 % percent[2] = 0
                       /\ 200 * Abs(off[1]) <= off[2]
              ELSE percent = <<0, 1>>

\* a summary has returned aggregates whose percentage had to be rounded
C29_Witness ==
    /\ hist.summary.done
    /\ SummedCost[1] > 0
    /\ hist.summary.performance.total_gain_loss_percent
          # ExactPercent(SummedGainLoss, SummedCost)

\* C30: a signal with neither a quantity nor a percentage yields the quantity
\* max(1, floor(capital_allocation * max_position_size / price)), price being
\* the price the order carries: the signal's if present and > 0, else the
\* live quote.
C30_DefaultSizesOrder ==
    \A r \in Req :
        (/\ SignalOrder(r)
         /\ execution[r].signal.quantity = 0
         /\ execution[r].signal.percentage = 0
         /\ execution[r].signal.price >= 0)
        => trade[r].quantity =
              Max(1, Trunc(RatDivInt(RatMulInt(strategy.max_position_size,
                                               strategy.capital_allocation),
                                     ResolvedPrice(r))))

\* C31: for a signal without an explicit quantity, the notional of the
\* derived order, its quantity times the price it is filled at, does not
\* exceed the strategy's capital_allocation (stated for the fills at a price
\* the feed supplied).
C31_NotionalWithinAllocation ==
    \A r \in Req :
        (/\ SignalOrder(r)
         /\ execution[r].signal.quantity = 0
         /\ Returned(r) /\ loc[r].success /\ Supplied(r))
        => Amount(r) <= strategy.capital_allocation

\* the execution record of request r says the order was executed, and the
\* order is EXECUTED
EndsExecuted(r) ==
    /\ execution[r].executed /\ execution[r].trade_id
    /\ trade[r] # NoTrade /\ trade[r].status = "EXECUTED"

\* the execution record of request r says the signal failed, and why
EndsFailed(r) == ~ execution[r].executed /\ execution[r].error_message # ""

\* the execution record of request r has one of the two outcomes, not both
EndsOneWay(r) ==
    \/ EndsExecuted(r) /\ ~ EndsFailed(r)
    \/ EndsFailed(r) /\ ~ EndsExecuted(r)

C32_ActiveExecutionEndsOneWay ==
    [][\A r \in Req :
          kind'[r] = "signal"
          => /\ hist'.executions = hist.executions
                    + (IF kind[r] = "signal" THEN 0 ELSE 1)
             /\ (/\ pc'[r] = "done"
                 /\ execution'[r].signal_type \in {"BUY", "SELL"}
                 /\ strategy.status = "ACTIVE")
                => EndsOneWay(r)']_vars

\* C33: the webhook path looks the strategy up by id alone, so a signal for an
\* existing ACTIVE strategy is processed and recorded: it is never answered
\* "Strategy not found or not active" without an execution record.
C33_WebhookFindsActiveStrategy ==
    [][hist'.rejected > hist.rejected => strategy.status # "ACTIVE"]_vars

\* C34: every order accepted by place_trade or derived from a signal has a
\* quantity above 0, so that no order of quantity 0 or less is stored or
\* filled.
C34_OrdersHavePositiveQuantity ==
    \A r \in Req : trade[r] # NoTrade => trade[r].quantity > 0

\* the stronger half of C34 alone: an order of quantity 0 or less is never
\* filled
C34_NoFillWithoutShares ==
    \A r \in Req :
        (trade[r] # NoTrade /\ trade[r].status = "EXECUTED")
        => trade[r].quantity > 0

\* cash_balance plus the shares of symbol held in rows, at price
ValueAt(cash_balance, rows, symbol, price) ==
    cash_balance + HeldIn(rows, symbol) * price

\* the quantity and average cost of the positions in rows of a symbol other
\* than symbol
OtherHoldings(rows, symbol) ==
    {[id |-> row.id, symbol |-> row.symbol, quantity |-> row.quantity,
      average_cost |-> row.average_cost] : row \in {x \in rows : x.symbol # symbol}}

\* C35: a successful fill conserves value at the fill price: cash_balance
\* plus the held quantity of the traded symbol times the fill price is the
\* same before and after the fill, for BUY and for SELL, and the position of
\* no other symbol is changed.
C35_FillConservesValue ==
    \A r \in Req :
        (/\ kind[r] \in {"place", "signal"} /\ trade[r] # NoTrade
         /\ trade[r].status = "EXECUTED")
        => LET t == trade[r]
               rows == RowsOf(t.portfolio_id)
               price == loc[r].current_price
           IN  /\ ValueAt(cash[t.portfolio_id], rows, t.symbol, price)
                    = ValueAt(pre[r].cash, pre[r].positions, t.symbol, price)
               /\ OtherHoldings(rows, t.symbol)
                    = OtherHoldings(pre[r].positions, t.symbol)

\* an order of a positive quantity has been filled at a price of the feed,
\* in a portfolio that holds a position of another symbol
C35_Witness ==
    \E r \in Req :
        /\ kind[r] = "place" /\ trade[r] # NoTrade
        /\ trade[r].status = "EXECUTED" /\ pc[r] = "reval"
        /\ trade[r].quantity > 0 /\ loc[r].current_price \in Prices
        /\ cash[trade[r].portfolio_id] # pre[r].cash
        /\ OtherHoldings(pre[r].positions, trade[r].symbol) # {}

\* the cash_balance, the total_value and the positions of a portfolio
Committed(portfolio_id) ==
    [cash_balance |-> cash[portfolio_id],
     total_value |-> total_value[portfolio_id],
     positions |-> RowsOf(portfolio_id)]

\* C36: executing an order, with the revaluation that follows the fill,
\* leaves every other portfolio unchanged: a step that changes the
\* cash_balance, the total_value or a position of a portfolio is a step of an
\* order on that portfolio, also while orders on different portfolios run
\* concurrently.
C36_OtherPortfoliosUnchanged ==
    [][\A q \in Portfolios :
          Committed(q)' # Committed(q)
          => \E r \in Req : /\ trade[r] # NoTrade
                            /\ trade[r].portfolio_id = q
                            /\ pc'[r] # pc[r]]_vars

\* an order on each portfolio has been filled and has moved its cash, and
\* both are at their revaluation at once
C36_Witness ==
    \E a, b \in Req :
        /\ trade[a] # NoTrade /\ trade[b] # NoTrade
        /\ trade[a].portfolio_id = 1 /\ trade[b].portfolio_id = 2
        /\ trade[a].status = "EXECUTED" /\ trade[b].status = "EXECUTED"
        /\ pc[a] = "reval_commit" /\ pc[b] = "reval_commit"
        /\ cash[1] # pre[a].cash /\ cash[2] # pre[b].cash

\* C37: every execute_trade call eventually returns, with the order filled
\* or rejected, provided every quote fetch and store operation it awaits
\* eventually responds or fails.
C37_ExecuteTradeReturns ==
    \A r \in Req : (pc[r] = "exec") ~> (pc[r] \in {"ret", "done"})

\* an execute_trade call waits for the portfolio row that the call of
\* another request has locked
C37_Witness ==
    \E a, b \in Req :
        /\ a # b
        /\ pc[a] \in {"buy_lookup", "buy_write", "sell_lookup", "sell_write", "status"}
        /\ rowLock[trade[a].portfolio_id] = b
        /\ pc[b] \notin {"idle", "ret", "done"}

\* C38: execute_trade returns True exactly when the order's persisted
\* status is EXECUTED at its return, also when the revaluation after the
\* fill raises; so a failure is reported only for an order not filled.
C38_ReturnsTrueIffExecuted ==
    \A r \in Req :
        Returned(r) => (loc[r].success <=> trade[r].status = "EXECUTED")

\* C39: for every EXECUTED order, total_amount (quantity times the order's
\* price) is the amount by which its fill changed cash_balance: the debit
\* of a BUY, the credit of a SELL.
C39_TotalAmountIsCashMoved ==
    \A r \in Req :
        (/\ kind[r] \in {"place", "signal"} /\ trade[r] # NoTrade
         /\ trade[r].status = "EXECUTED")
        => trade[r].total_amount =
              IF trade[r].order_type = "BUY"
              THEN pre[r].cash - cash[trade[r].portfolio_id]
              ELSE cash[trade[r].portfolio_id] - pre[r].cash

\* C40: every fill price is a price the upstream feed supplied, fresh or
\* cached: an order is filled only at the price the feed answered, and when
\* the fetch fails no order is filled.
C40_FillPriceFromFeed ==
    \A r \in Req :
        (/\ kind[r] \in {"place", "signal"} /\ trade[r] # NoTrade
         /\ trade[r].status = "EXECUTED")
        => /\ Supplied(r)
           /\ loc[r].current_price = loc[r].feed

====
